---- MODULE Spec2Model ----
(***************************************************************************)
(* Room membership and relay engine of the signaling server                *)
(* (src/unnamed/part_001, the "fixed + safer + require-name" server.js).   *)
(*                                                                         *)
(* State: the socket.io adapter's room table (io.sockets.adapter.rooms),   *)
(* the table of connected sockets (io.sockets.sockets), each socket's      *)
(* socket.data, and the module-level roomMembersMap.  One action per       *)
(* event handler; a handler runs to completion (Node.js runs each event    *)
(* callback on one thread), so an action is the whole handler.  The        *)
(* variables last and log record the event just handled and, in order,    *)
(* what the handler did (adapter joins/leaves, snapshot edits, emits with  *)
(* the recipients the adapter resolves at that moment).  The variables     *)
(* peerView and toldName are the receiving side: what each client holds    *)
(* after applying, in order, the notices the handlers sent it.             *)
(***************************************************************************)
EXTENDS Integers, Sequences, FiniteSets, TLC

VARIABLES
    status,          \* status[c]: "new" (not yet connected), "open", "closed"
    rooms,           \* io.sockets.adapter.rooms: room name -> set of socket ids
    data,            \* socket.data of every socket: [name, room, meta]
    roomMembersMap,  \* module-level Map room -> Set(socketId), as a set of <<room, set>>
    last,            \* the event handled by the last step
    log,             \* what the last handler did, in program order
    nEvents,         \* number of client events handled so far
    peerView,        \* peerView[m]: the peer ids client m holds from the notices it got
    toldName         \* toldName[m]: the name client m was last given for each id

vars == <<status, rooms, data, roomMembersMap, last, log, nEvents, peerView, toldName>>

-----------------------------------------------------------------------------
(* Bounds of the model                                                     *)

MaxEvents == 3

-----------------------------------------------------------------------------
(* Identifiers and JavaScript values                                       *)

\* socket ids handed out by socket.io, one per connection
Conns == {"s1", "s2", "s3"}

\* room names clients choose; a client may also send a socket id as a room name
RoomNames == {"r1", "r2"}
IdRoomNames == {"s1"}
AllRooms == RoomNames \cup Conns

Null == "<null>"            \* JavaScript null
Missing == "<undefined>"    \* a field absent from the payload

\* a truthiness test that lets the empty string through
Falsy_OnlyAbsent(x) == x \in {Null, Missing}

\* !x for a room / to / data field
Falsy(x) == x \in {Null, Missing, ""}

\* a JavaScript value by type; v is the character sequence of a string
Undef == [t |-> "undefined", v |-> <<>>]
Num == [t |-> "number", v |-> <<>>]
Str(s) == [t |-> "string", v |-> s]

Rep(ch, n) == [i \in 1..n |-> ch]

Anonymous == <<"A", "n", "o", "n", "y", "m", "o", "u", "s">>

NameCap == 50
DeviceTypeCap == 20
LanguageCap == 20
TimezoneCap == 50
CountryGuessCap == 20
UserAgentCap == 120

Min(a, b) == IF a < b THEN a ELSE b

\* String.prototype.slice(0, n)
Slice(s, n) == SubSeq(s, 1, Min(n, Len(s)))

RECURSIVE TrimLeft(_)
TrimLeft(s) == IF s # <<>> /\ Head(s) = " " THEN TrimLeft(Tail(s)) ELSE s

RECURSIVE TrimRight(_)
TrimRight(s) ==
    IF s # <<>> /\ s[Len(s)] = " " THEN TrimRight(SubSeq(s, 1, Len(s) - 1)) ELSE s

\* String.prototype.trim()
Trim(s) == TrimRight(TrimLeft(s))

\* sanitizeName(name): name is a JavaScript value
sanitizeName(name) ==
    IF name.t # "string" \/ name.v = <<>> THEN Anonymous
    ELSE LET n == Trim(name.v) IN
         IF n = <<>> THEN Anonymous
         ELSE IF Len(n) > NameCap THEN Slice(n, NameCap)
         ELSE n

\* a client meta object is [t |-> type, f |-> set of <<key, value>>]
MetaCap(k) ==
    CASE k = "deviceType" -> DeviceTypeCap
      [] k = "language" -> LanguageCap
      [] k = "timezone" -> TimezoneCap
      [] k = "countryGuess" -> CountryGuessCap
      [] k = "userAgent" -> UserAgentCap

MetaKeys == {"deviceType", "language", "timezone", "countryGuess", "userAgent"}

\* the value Date.now() stores under _sanitizedAt
Now == <<"#", "t", "s">>

\* a join that stores the client's object as sent (as src/server.js line 104 does)
sanitizeMeta_Unchecked(meta) ==
    IF meta.t # "object" THEN {} ELSE { <<p[1], p[2].v>> : p \in meta.f }

\* sanitizeMeta(meta): the stored meta is a set of <<key, character sequence>>
sanitizeMeta(meta) ==
    IF meta.t # "object" THEN {}
    ELSE { <<p[1], Slice(p[2].v, MetaCap(p[1]))>> :
              p \in { q \in meta.f : q[1] \in MetaKeys /\ q[2].t = "string" } }
         \cup { <<"_sanitizedAt", Now>> }


-----------------------------------------------------------------------------
(* The socket.io substrate the handlers call.  socket.io puts every socket *)
(* in a room named by its own id when it connects; io.to(id) at line 201   *)
(* addresses a single socket through that room.  When a socket closes,     *)
(* socket.io takes it out of every room and out of io.sockets.sockets      *)
(* before the 'disconnect' listeners run.                                  *)

\* keys of io.sockets.sockets
Sockets(stat) == {c \in Conns : stat[c] = "open"}

\* socket.join(room)
AdapterJoin(rms, room, id) == [rms EXCEPT ![room] = @ \cup {id}]

\* a leave that forgets to take the socket out of the adapter room
AdapterLeave_Noop(rms, room, id) == rms

\* socket.leave(room)
AdapterLeave(rms, room, id) == [rms EXCEPT ![room] = @ \ {id}]

\* the socket's removal from every room when it closes
AdapterLeaveAll(rms, id) == [r \in DOMAIN rms |-> rms[r] \ {id}]

\* getRoomClientIds(room): Array.from(io.sockets.adapter.rooms.get(room))
getRoomClientIds(rms, room) == IF room \in DOMAIN rms THEN rms[room] ELSE {}

\* recipients of io.to(room).emit(...)
IoTo(rms, room) == getRoomClientIds(rms, room)

\* a room broadcast that does not leave out the emitting socket
SocketTo_WithSender(rms, room, id) == getRoomClientIds(rms, room)

\* recipients of socket.to(room).emit(...): the room without the emitting socket
SocketTo(rms, room, id) == getRoomClientIds(rms, room) \ {id}

\* recipients of socket.emit(...)
SocketEmit(id) == {id}

\* { id, name, meta } of a socket id, 'Anonymous' / {} when the socket is gone
Member(socks, dt, id) ==
    [id   |-> id,
     name |-> IF id \in socks /\ dt[id].name # <<>> THEN dt[id].name ELSE Anonymous,
     meta |-> IF id \in socks THEN dt[id].meta ELSE {}]

\* getRoomMembersWithMeta(room)
getRoomMembersWithMeta(socks, rms, dt, room) ==
    { Member(socks, dt, id) : id \in getRoomClientIds(rms, room) }

-----------------------------------------------------------------------------
(* roomMembersMap, a JavaScript Map, as a set of <<key, value>> pairs       *)

MapHas(m, k) == \E p \in m : p[1] = k
MapGet(m, k) == (CHOOSE p \in m : p[1] = k)[2]
MapSet(m, k, v) == {p \in m : p[1] # k} \cup {<<k, v>>}
MapDelete(m, k) == {p \in m : p[1] # k}
MapKeys(m) == {p[1] : p \in m}

-----------------------------------------------------------------------------
(* The record of what a handler did                                        *)

Body0 ==
    [id |-> Null, name |-> <<>>, meta |-> {}, members |-> {}, joined |-> {},
     left |-> {}, count |-> 0, data |-> Null, text |-> <<>>]

\* an emit of event ev addressed to room (or socket) target, received by rcpt
Emit(ev, target, rcpt, body) ==
    [op |-> "emit", ev |-> ev, room |-> target, rcpt |-> rcpt, body |-> body]

\* a change of the adapter's room table or of roomMembersMap for socket id
Did(op, room, id) ==
    [op |-> op, ev |-> "", room |-> room, rcpt |-> {}, body |-> [Body0 EXCEPT !.id = id]]

\* the handler state threaded through a handler: [rooms, data, map, log]
Logged(st, entry) == [st EXCEPT !.log = Append(@, entry)]

-----------------------------------------------------------------------------
(* Helpers shared by the handlers                                          *)

\* a roster broadcast that sends the count only
emitRoomMembers_MetaOnly(st, socks, room) ==
    Logged(st, Emit("roomMeta", room, IoTo(st.rooms, room),
                    [Body0 EXCEPT !.count =
                        Cardinality(getRoomMembersWithMeta(socks, st.rooms, st.data, room))]))

\* emitRoomMembers(room)
emitRoomMembers(st, socks, room) ==
    LET members == getRoomMembersWithMeta(socks, st.rooms, st.data, room)
        count == Cardinality(members)
        st1 == Logged(st, Emit("roomMembers", room, IoTo(st.rooms, room),
                               [Body0 EXCEPT !.members = members, !.count = count]))
    IN Logged(st1, Emit("roomMeta", room, IoTo(st.rooms, room),
                        [Body0 EXCEPT !.count = count]))

\* a delta computation that does not store the current set
emitRoomDelta_NoStore(st, socks, room) ==
    LET prevSet == IF MapHas(st.map, room) THEN MapGet(st.map, room) ELSE {}
        currSet == getRoomClientIds(st.rooms, room)
        joined == { Member(socks, st.data, id) : id \in currSet \ prevSet }
        left == { Member(socks, st.data, id) : id \in prevSet \ currSet }
    IN IF joined # {} \/ left # {}
       THEN Logged(st, Emit("roomDelta", room, IoTo(st.rooms, room),
                            [Body0 EXCEPT !.joined = joined, !.left = left]))
       ELSE st

\* emitRoomDelta(room)
emitRoomDelta(st, socks, room) ==
    LET prevSet == IF MapHas(st.map, room) THEN MapGet(st.map, room) ELSE {}
        currSet == getRoomClientIds(st.rooms, room)
        joined == { Member(socks, st.data, id) : id \in currSet \ prevSet }
        left == { Member(socks, st.data, id) : id \in prevSet \ currSet }
        map1 == IF currSet = {} THEN MapDelete(st.map, room)
                ELSE MapSet(st.map, room, currSet)
        st1 == [st EXCEPT !.map = map1]
    IN IF joined # {} \/ left # {}
       THEN Logged(st1, Emit("roomDelta", room, IoTo(st.rooms, room),
                             [Body0 EXCEPT !.joined = joined, !.left = left]))
       ELSE st1

\* the handlers' "update map" block: delete id from the stored set of room
SnapshotRemove(st, room, id) ==
    IF MapHas(st.map, room) /\ id \in MapGet(st.map, room)
    THEN LET set == MapGet(st.map, room) \ {id} IN
         Logged([st EXCEPT !.map = IF set = {} THEN MapDelete(@, room)
                                   ELSE MapSet(@, room, set)],
                Did("snapshot.delete", room, id))
    ELSE st

\* the join handler's "ensure map exists and add"
SnapshotAdd(st, room, id) ==
    LET set == IF MapHas(st.map, room) THEN MapGet(st.map, room) ELSE {} IN
    Logged([st EXCEPT !.map = MapSet(@, room, set \cup {id})],
           Did("snapshot.add", room, id))

-----------------------------------------------------------------------------
(* The event handlers, as functions from the state before to the state     *)
(* after; st is [rooms, data, map, log], socks the connected sockets       *)

\* a room switch that sends the old room its roster before leaving it
JoinLeavePrev_RosterFirst(st, socks, id) ==
    LET prevRoom == st.data[id].room
        st0 == emitRoomMembers(st, socks, prevRoom)
        st1 == Logged(st0, Emit("peer-left", prevRoom, SocketTo(st0.rooms, prevRoom, id),
                                [Body0 EXCEPT !.id = id, !.name = st0.data[id].name,
                                              !.meta = st0.data[id].meta]))
        st2 == Logged([st1 EXCEPT !.rooms = AdapterLeave(@, prevRoom, id)],
                      Did("adapter.leave", prevRoom, id))
        st3 == SnapshotRemove(st2, prevRoom, id)
    IN emitRoomDelta(st3, socks, prevRoom)

\* join, lines 150-163: leave the previously recorded room first
JoinLeavePrev(st, socks, id) ==
    LET prevRoom == st.data[id].room
        st1 == Logged(st, Emit("peer-left", prevRoom, SocketTo(st.rooms, prevRoom, id),
                               [Body0 EXCEPT !.id = id, !.name = st.data[id].name,
                                             !.meta = st.data[id].meta]))
        st2 == Logged([st1 EXCEPT !.rooms = AdapterLeave(@, prevRoom, id)],
                      Did("adapter.leave", prevRoom, id))
        st3 == SnapshotRemove(st2, prevRoom, id)
        st4 == emitRoomDelta(st3, socks, prevRoom)
    IN emitRoomMembers(st4, socks, prevRoom)

\* the room's sockets without the requester filtered out
OtherClients_WithSelf(socks, rms, dt, room, id) ==
    { Member(socks, dt, o) : o \in getRoomClientIds(rms, room) }

\* join, lines 172-178: the other sockets of the room, with name and meta
OtherClients(socks, rms, dt, room, id) ==
    { Member(socks, dt, o) : o \in getRoomClientIds(rms, room) \ {id} }

\* join, lines 165-190: register the new membership and announce it
JoinNew(st, socks, id, room) ==
    LET st1 == Logged([st EXCEPT !.rooms = AdapterJoin(@, room, id),
                                 !.data[id].room = room],
                      Did("adapter.join", room, id))
        otherClients == OtherClients(socks, st1.rooms, st1.data, room, id)
        st2 == Logged(st1, Emit("existingPeers", id, SocketEmit(id),
                                [Body0 EXCEPT !.members = otherClients]))
        st3 == Logged(st2, Emit("peer-joined", room, SocketTo(st2.rooms, room, id),
                                [Body0 EXCEPT !.id = id, !.name = st2.data[id].name,
                                              !.meta = st2.data[id].meta]))
        st4 == SnapshotAdd(st3, room, id)
        st5 == emitRoomDelta(st4, socks, room)
    IN emitRoomMembers(st5, socks, room)

\* a join handler without the same-room case: the join is registered again
JoinResync_Rejoin(st, socks, id, room) == JoinNew(st, socks, id, room)

\* join, lines 143-148: already in that room, send the roster to the requester
JoinResync(st, socks, id, room) ==
    LET members == { m \in getRoomMembersWithMeta(socks, st.rooms, st.data, room) :
                        m.id # id }
    IN Logged(st, Emit("existingPeers", id, SocketEmit(id),
                       [Body0 EXCEPT !.members = members]))

\* a join handler without the name check
NameRefused_Never(name) == FALSE

\* the name check of join, lines 127-132: TRUE when the join is refused
NameRefused(name) == (IF name.t = "string" THEN Trim(name.v) ELSE <<>>) = <<>>

\* socket.on('join', ({ room, name, clientMeta }) => ...)
JoinHandler(st, socks, id, room, name, clientMeta) ==
    IF NameRefused(name)
    THEN Logged(st, Emit("require-name", id, SocketEmit(id), Body0))
    ELSE IF Falsy(room)
    THEN Logged(st, Emit("error", id, SocketEmit(id), Body0))
    ELSE LET st1 == [st EXCEPT !.data[id].name = sanitizeName(Str(Trim(name.v))),
                               !.data[id].meta = sanitizeMeta(clientMeta)]
         IN IF st1.data[id].room = room
            THEN JoinResync(st1, socks, id, room)
            ELSE JoinNew(IF ~Falsy(st1.data[id].room) /\ st1.data[id].room # room
                         THEN JoinLeavePrev(st1, socks, id)
                         ELSE st1,
                         socks, id, room)

\* a signal handler without the "if (!data) return" guard
SignalHandler_NoDataCheck(st, id, to, dat) ==
    IF ~Falsy(to)
    THEN Logged(st, Emit("signal", to, IoTo(st.rooms, to),
                         [Body0 EXCEPT !.id = id, !.data = dat]))
    ELSE IF ~Falsy(st.data[id].room)
    THEN Logged(st, Emit("signal", st.data[id].room,
                         SocketTo(st.rooms, st.data[id].room, id),
                         [Body0 EXCEPT !.id = id, !.data = dat]))
    ELSE st

\* socket.on('signal', ({ to, data }) => ...)
SignalHandler(st, id, to, dat) ==
    IF Falsy(dat) THEN st
    ELSE IF ~Falsy(to)
    THEN Logged(st, Emit("signal", to, IoTo(st.rooms, to),
                         [Body0 EXCEPT !.id = id, !.data = dat]))
    ELSE IF ~Falsy(st.data[id].room)
    THEN Logged(st, Emit("signal", st.data[id].room,
                         SocketTo(st.rooms, st.data[id].room, id),
                         [Body0 EXCEPT !.id = id, !.data = dat]))
    ELSE st

\* a chat guard that does not look at the type of text
ChatRefused_RoomOnly(room, text) == Falsy(room)

\* the guard of chatMessage, line 213: TRUE when the message is dropped
ChatRefused(room, text) == Falsy(room) \/ text.t # "string"

\* socket.on('chatMessage', ({ room, text }) => ...)
ChatHandler(st, id, room, text) ==
    IF ChatRefused(room, text) THEN st
    ELSE LET name == IF st.data[id].name # <<>> THEN st.data[id].name ELSE Anonymous
         IN Logged(st, Emit("chatMessage", room, SocketTo(st.rooms, room, id),
                            [Body0 EXCEPT !.id = id, !.name = name, !.text = text.v]))

\* socket.on('leave', () => ...)
LeaveHandler(st, socks, id) ==
    LET room == st.data[id].room
        name == IF st.data[id].name # <<>> THEN st.data[id].name ELSE Anonymous
        meta == st.data[id].meta
    IN IF Falsy(room) THEN st
       ELSE LET st1 == Logged(st, Emit("peer-left", room, SocketTo(st.rooms, room, id),
                                       [Body0 EXCEPT !.id = id, !.name = name,
                                                     !.meta = meta]))
                st2 == Logged([st1 EXCEPT !.rooms = AdapterLeave(@, room, id),
                                          !.data[id].room = Null],
                              Did("adapter.leave", room, id))
                st3 == SnapshotRemove(st2, room, id)
                st4 == emitRoomDelta(st3, socks, room)
            IN emitRoomMembers(st4, socks, room)

\* socket.on('disconnect', reason => ...); st and socks are already without the socket
DisconnectHandler(st, socks, id) ==
    LET room == st.data[id].room
        name == IF st.data[id].name # <<>> THEN st.data[id].name ELSE Anonymous
        meta == st.data[id].meta
        done == IF Falsy(room) THEN st
                ELSE LET st1 == Logged(st, Emit("peer-left", room,
                                                SocketTo(st.rooms, room, id),
                                                [Body0 EXCEPT !.id = id, !.name = name,
                                                              !.meta = meta]))
                         st2 == SnapshotRemove(st1, room, id)
                         st3 == emitRoomDelta(st2, socks, room)
                     IN emitRoomMembers(st3, socks, room)
    IN [done EXCEPT !.data[id].room = Null, !.data[id].meta = {}]

-----------------------------------------------------------------------------
(* Inputs clients send                                                     *)

\* ids a client can have learnt: those of sockets that have connected
KnownIds == {c \in Conns : status[c] # "new"}

\* identities a join can carry: a name and a clientMeta object
LongName == Str(Rep("x", NameCap + 1))
NoMeta == [t |-> "undefined", f |-> {}]
SomeMeta ==
    [t |-> "object",
     f |-> { <<"deviceType", Str(Rep("d", DeviceTypeCap + 1))>>,
             <<"language", Num>>,
             <<"isAdmin", Str(<<"1">>)>>,
             <<"_sanitizedAt", Str(<<"0">>)>>,
             <<"timezone", Str(<<"U", "T", "C">>)>>,
             <<"userAgent", Str(Rep("u", UserAgentCap + 1))>> }]

RoomInputs == {Missing, ""} \cup RoomNames \cup (IdRoomNames \cap KnownIds)

\* join payloads <<room, name, clientMeta>>
JoinInputs ==
    (RoomInputs \X { <<Str(<<" ", "a", "l", " ">>), NoMeta>>, <<LongName, SomeMeta>> })
    \cup ({"r1"} \X { <<Undef, NoMeta>>, <<Num, SomeMeta>>, <<Str(<<" ", " ">>), NoMeta>> })
    \cup { <<Missing, <<Undef, NoMeta>>>> }

\* signal payloads <<to, data>>
SignalInputs ==
    ((({Missing} \cup KnownIds \cup {"r1"}) \X {"sdp"}))
    \cup { <<Missing, Missing>>, <<"r1", Missing>> }

\* chatMessage payloads <<room, text>>
ChatInputs ==
    (RoomInputs \X { Str(<<"h", "i">>) }) \cup { <<"r1", Num>> }

-----------------------------------------------------------------------------
(* The receiving side: a client applies the notices sent to it, in order   *)

IdsOf(members) == {x.id : x \in members}

\* the peer set of client m after the first n entries of lg: existingPeers
\* replaces it, peer-joined adds the announced id, peer-left removes it
RECURSIVE ViewAfter(_, _, _, _)
ViewAfter(view, lg, m, n) ==
    IF n = 0 THEN view
    ELSE LET v == ViewAfter(view, lg, m, n - 1)
             e == lg[n]
         IN IF e.op # "emit" \/ m \notin e.rcpt THEN v
            ELSE CASE e.ev = "existingPeers" -> IdsOf(e.body.members)
                   [] e.ev = "peer-joined" -> v \cup {e.body.id}
                   [] e.ev = "peer-left" -> v \ {e.body.id}
                   [] OTHER -> v

\* names as a set of <<id, name>>, one pair per id
Tell(told, members) ==
    {p \in told : p[1] \notin IdsOf(members)} \cup {<<x.id, x.name>> : x \in members}

\* the names client m was given by the first n entries of lg: existingPeers
\* and roomMembers name every listed member, peer-joined the announced one
RECURSIVE ToldAfter(_, _, _, _)
ToldAfter(told, lg, m, n) ==
    IF n = 0 THEN told
    ELSE LET t == ToldAfter(told, lg, m, n - 1)
             e == lg[n]
         IN IF e.op # "emit" \/ m \notin e.rcpt THEN t
            ELSE CASE e.ev \in {"existingPeers", "roomMembers"} -> Tell(t, e.body.members)
                   [] e.ev = "peer-joined" ->
                        Tell(t, {[id |-> e.body.id, name |-> e.body.name]})
                   [] OTHER -> t

-----------------------------------------------------------------------------
(* The state machine                                                       *)

NoEvent ==
    [ev |-> "none", id |-> Null, room |-> Null, name |-> Undef, meta |-> NoMeta,
     to |-> Null, data |-> Null, text |-> Undef]

Data0 == [name |-> Anonymous, room |-> Null, meta |-> {}]

Init ==
    /\ status = [c \in Conns |-> "new"]
    /\ rooms = [r \in AllRooms |-> {}]
    /\ data = [c \in Conns |-> Data0]
    /\ roomMembersMap = {}
    /\ last = NoEvent
    /\ log = <<>>
    /\ nEvents = 0
    /\ peerView = [c \in Conns |-> {}]
    /\ toldName = [c \in Conns |-> {}]

Here == [rooms |-> rooms, data |-> data, map |-> roomMembersMap, log |-> <<>>]

Becomes(st) ==
    /\ rooms' = st.rooms
    /\ data' = st.data
    /\ roomMembersMap' = st.map
    /\ log' = st.log
    /\ nEvents' = nEvents + 1
    /\ peerView' = [m \in Conns |-> ViewAfter(peerView[m], st.log, m, Len(st.log))]
    /\ toldName' = [m \in Conns |-> ToldAfter(toldName[m], st.log, m, Len(st.log))]

\* socket.io names the sockets; the k-th socket to connect is called "s<k>"
Earlier(d, c) == <<d, c>> \in { <<"s1", "s2">>, <<"s1", "s3">>, <<"s2", "s3">> }

\* io.on('connection', socket => ...), lines 118-121
Connect(c) ==
    /\ status[c] = "new"
    /\ \A d \in Conns : Earlier(d, c) => status[d] # "new"
    /\ status' = [status EXCEPT ![c] = "open"]
    /\ rooms' = AdapterJoin(rooms, c, c)
    /\ data' = [data EXCEPT ![c] = Data0]
    /\ last' = [NoEvent EXCEPT !.ev = "connection", !.id = c]
    /\ log' = <<>>
    /\ UNCHANGED <<roomMembersMap, nEvents, peerView, toldName>>

Join(c, room, name, clientMeta) ==
    /\ status[c] = "open"
    /\ nEvents < MaxEvents
    /\ Becomes(JoinHandler(Here, Sockets(status), c, room, name, clientMeta))
    /\ last' = [NoEvent EXCEPT !.ev = "join", !.id = c, !.room = room, !.name = name,
                               !.meta = clientMeta]
    /\ UNCHANGED status

Signal(c, to, dat) ==
    /\ status[c] = "open"
    /\ nEvents < MaxEvents
    /\ Becomes(SignalHandler(Here, c, to, dat))
    /\ last' = [NoEvent EXCEPT !.ev = "signal", !.id = c, !.to = to, !.data = dat]
    /\ UNCHANGED status

ChatMessage(c, room, text) ==
    /\ status[c] = "open"
    /\ nEvents < MaxEvents
    /\ Becomes(ChatHandler(Here, c, room, text))
    /\ last' = [NoEvent EXCEPT !.ev = "chatMessage", !.id = c, !.room = room,
                               !.text = text]
    /\ UNCHANGED status

Leave(c) ==
    /\ status[c] = "open"
    /\ nEvents < MaxEvents
    /\ Becomes(LeaveHandler(Here, Sockets(status), c))
    /\ last' = [NoEvent EXCEPT !.ev = "leave", !.id = c]
    /\ UNCHANGED status

Disconnect(c) ==
    /\ status[c] = "open"
    /\ nEvents < MaxEvents
    /\ status' = [status EXCEPT ![c] = "closed"]
    /\ Becomes(DisconnectHandler([Here EXCEPT !.rooms = AdapterLeaveAll(@, c)],
                                 Sockets(status) \ {c}, c))
    /\ last' = [NoEvent EXCEPT !.ev = "disconnect", !.id = c]

Next ==
    \/ \E c \in Conns : Connect(c)
    \/ \E c \in Conns, in \in JoinInputs : Join(c, in[1], in[2][1], in[2][2])
    \/ \E c \in Conns, in \in SignalInputs : Signal(c, in[1], in[2])
    \/ \E c \in Conns, in \in ChatInputs : ChatMessage(c, in[1], in[2])
    \/ \E c \in Conns : Leave(c)
    \/ \E c \in Conns : Disconnect(c)

Spec == Init /\ [][Next]_vars

-----------------------------------------------------------------------------
(* Reading the state and the handler record                                *)

\* a room, target or data field that is empty or absent
Absent(x) == x \in {Missing, Null, ""}

\* the rooms clients have made: the chosen names, recorded rooms and snapshot keys
ClientRooms ==
    RoomNames \cup ({data[c].room : c \in Conns} \ {Null}) \cup MapKeys(roomMembersMap)

\* positions in log of the emits of event ev, and of the state changes op
Emits(ev) == {i \in DOMAIN log : log[i].op = "emit" /\ log[i].ev = ev}
Steps(op) == {i \in DOMAIN log : log[i].op = op}

\* every connection an emit of the last handler reached
Recipients(ev) == UNION {log[i].rcpt : i \in Emits(ev)}

\* the last event was a join that registered a new membership
Registered == last.ev = "join" /\ Steps("adapter.join") # {}

\* the last event was a join that moved its sender out of another room
Switched == Registered /\ Steps("adapter.leave") # {}

MemberIds(members) == {m.id : m \in members}

-----------------------------------------------------------------------------
(* C1 *)

\* C1: for every connection c and room r, c is in the live member set of r
\* if and only if c's recorded room is r.
C1_MemberIffRecorded ==
    \A c \in Conns, r \in ClientRooms : (c \in rooms[r]) <=> (data[c].room = r)

-----------------------------------------------------------------------------
(* C2 *)

\* C2: at the end of every join, leave and disconnect handler, every room has a
\* snapshot entry exactly when its live member set is non-empty, and the entry
\* equals the live member set.
C2_SnapshotIsLiveSet ==
    last.ev \in {"join", "leave", "disconnect"} =>
        \A r \in ClientRooms :
            /\ MapHas(roomMembersMap, r) <=> (rooms[r] # {})
            /\ MapHas(roomMembersMap, r) => MapGet(roomMembersMap, r) = rooms[r]

-----------------------------------------------------------------------------
(* C3 *)

\* C3: a signal carrying data and the id of a connection as its target is
\* delivered to that connection and to no other.
C3_TargetedSignalOnlyToTarget ==
    (last.ev = "signal" /\ ~Absent(last.data) /\ last.to \in Conns) =>
        /\ Recipients("signal") \subseteq {last.to}
        /\ status[last.to] = "open" => Recipients("signal") = {last.to}

-----------------------------------------------------------------------------
(* C4 *)

\* C4: the sender of a signal or chatMessage is never among the recipients of
\* the signal / chatMessage it causes.
C4_NeverBackToSender ==
    last.ev \in {"signal", "chatMessage"} =>
        last.id \notin (Recipients("signal") \cup Recipients("chatMessage"))

-----------------------------------------------------------------------------
(* C5 *)

\* C5: a join that registers a new membership of c in R sends c one
\* existingPeers listing exactly the connected sockets in R other than c, each
\* of them recorded in R (or R being its own socket room), and each of them is
\* sent a peer-joined for c.
C5_ExistingPeersAreLiveOthers ==
    Registered =>
        LET c == last.id
            R == last.room
            others == rooms[R] \ {c}
        IN /\ Cardinality(Emits("existingPeers")) = 1
           /\ \A i \in Emits("existingPeers") :
                 /\ log[i].rcpt = {c}
                 /\ MemberIds(log[i].body.members) = others
           /\ others \subseteq Sockets(status)
           /\ \A d \in others : data[d].room = R \/ d = R
           /\ \A d \in others :
                 \E i \in Emits("peer-joined") : d \in log[i].rcpt /\ log[i].body.id = c

\* a join into a room that already has another member
C5_Witness == Registered /\ rooms[last.room] \ {last.id} # {}

-----------------------------------------------------------------------------
(* C6 *)

\* C6: a join whose room is empty or missing leaves every recorded room, name,
\* metadata, live member set and snapshot as it was and emits one notice
\* (error or require-name), to the requester alone.
C6_EmptyRoomJoinChangesNothing ==
    [][(nEvents' # nEvents /\ last'.ev = "join" /\ Absent(last'.room)) =>
          /\ UNCHANGED <<status, rooms, data, roomMembersMap>>
          /\ Len(log') = 1
          /\ log'[1].op = "emit"
          /\ log'[1].ev \in {"error", "require-name"}
          /\ log'[1].rcpt = {last'.id}]_vars

\* a named join without a room, sent while another connection is in a room
C6_Witness ==
    /\ last.ev = "join" /\ Absent(last.room) /\ last.name.t = "string"
    /\ Emits("error") # {}
    /\ \E c \in Conns : data[c].room # Null

-----------------------------------------------------------------------------
(* C7 *)

\* a name that is missing, not a string, or only white space
BlankName(name) == name.t # "string" \/ Trim(name.v) = <<>>

\* C7 as claimed: a join with a room and a missing, non-string or blank name
\* stores the name "Anonymous" and makes the connection a member of the room.
C7_BlankNameJoinsAsAnonymous ==
    (last.ev = "join" /\ ~Absent(last.room) /\ BlankName(last.name)) =>
        /\ data[last.id].name = Anonymous
        /\ data[last.id].room = last.room
        /\ last.id \in rooms[last.room]

\* C7 as amended: a join with a room and a missing, non-string or blank name
\* is refused: the requester alone is sent one require-name notice and no
\* name, metadata, recorded room, live member set or snapshot changes.
C7_BlankNameRefused ==
    [][(nEvents' # nEvents /\ last'.ev = "join" /\ ~Absent(last'.room)
           /\ BlankName(last'.name)) =>
          /\ UNCHANGED <<status, rooms, data, roomMembersMap>>
          /\ Len(log') = 1
          /\ log'[1].op = "emit"
          /\ log'[1].ev = "require-name"
          /\ log'[1].rcpt = {last'.id}]_vars

\* a blank-name join for a room, from a connection that is not in that room
C7_Witness ==
    /\ last.ev = "join" /\ last.room = "r1" /\ BlankName(last.name)
    /\ Emits("require-name") # {}
    /\ last.id \notin rooms["r1"]

-----------------------------------------------------------------------------
(* C8 *)

\* C8: a join that moves c from room A to room B sends peer-left to every
\* other member of A and takes c out of A's live set and snapshot before it
\* puts c into B's live set and before any peer-joined; afterwards c is a
\* member of B and of no other room.
C8_SwitchLeavesFirst ==
    Switched =>
        LET c == last.id
            B == last.room
        IN \A l \in Steps("adapter.leave"), j \in Steps("adapter.join") :
              LET A == log[l].room IN
              /\ A # B /\ log[j].room = B
              /\ \E p \in Emits("peer-left") :
                    p < j /\ log[p].body.id = c /\ log[p].rcpt = rooms[A]
              /\ l < j
              /\ \A d \in Steps("snapshot.delete") : d < j
              /\ \A a \in Steps("snapshot.add") : j < a
              /\ \A q \in Emits("peer-joined") : j < q
              /\ c \notin rooms[A]
              /\ MapHas(roomMembersMap, A) => c \notin MapGet(roomMembersMap, A)
              /\ c \in rooms[B]
              /\ \A r \in ClientRooms \ {B} : c \notin rooms[r]

-----------------------------------------------------------------------------
(* C9 *)

-----------------------------------------------------------------------------
(* C10 *)

\* C10: a join that adds c to R sends R's members a roomDelta whose joined
\* list has c; a leave or disconnect that removes c from R sends the remaining
\* members a roomDelta whose left list has c.
C10_ChangeReportedInDelta ==
    /\ Registered =>
          \E i \in Emits("roomDelta") :
             /\ log[i].room = last.room
             /\ last.id \in MemberIds(log[i].body.joined)
             /\ log[i].rcpt = rooms[last.room]
    /\ \A p \in Emits("peer-left") :
          (last.ev \in {"leave", "disconnect"} /\ rooms[log[p].room] # {}) =>
             \E i \in Emits("roomDelta") :
                /\ log[i].room = log[p].room
                /\ last.id \in MemberIds(log[i].body.left)
                /\ log[i].rcpt = rooms[log[p].room]

-----------------------------------------------------------------------------
(* C11 *)

\* emitRoomDelta(room) in the current state, and again on what it leaves
FirstDelta(r) == emitRoomDelta(Here, Sockets(status), r)
SecondDelta(r) == emitRoomDelta([FirstDelta(r) EXCEPT !.log = <<>>], Sockets(status), r)

\* C11: a second emitRoomDelta(room) right after a first, with no membership
\* change between them, finds joined and left empty: it emits no roomDelta
\* and leaves the snapshot as the first call stored it.
C11_SecondDeltaIsEmpty ==
    \A r \in AllRooms :
        /\ SecondDelta(r).log = <<>>
        /\ SecondDelta(r).map = FirstDelta(r).map

\* a state in which the first call on a room clients use does emit a roomDelta
C11_Witness == \E r \in ClientRooms : FirstDelta(r).log # <<>>

-----------------------------------------------------------------------------
(* C12 *)

\* the last event was a disconnect of a connection that was recorded in a room
DisconnectedFromRoom == last.ev = "disconnect" /\ Emits("peer-left") # {}

\* C12: once the disconnect of a connection joined to R is processed, its id
\* is in no room's live member set and in no snapshot, its recorded room is
\* cleared, and every remaining member of R was sent exactly one peer-left
\* for it.
C12_DisconnectPurges ==
    DisconnectedFromRoom =>
        LET c == last.id IN
        /\ \A r \in AllRooms : c \notin rooms[r]
        /\ \A p \in roomMembersMap : c \notin p[2]
        /\ data[c].room = Null
        /\ \A q \in Emits("peer-left") :
              \A d \in rooms[log[q].room] :
                 Cardinality({i \in Emits("peer-left") :
                                 d \in log[i].rcpt /\ log[i].body.id = c}) = 1

-----------------------------------------------------------------------------
(* C13 *)

\* C13: a leave by c recorded in R sends peer-left for c to the other members
\* of R and to nobody else, takes c out of R's live member set and snapshot
\* and clears c's recorded room; every other connection keeps its memberships
\* and its recorded room.
C13_LeaveNotifiesAndRemoves ==
    [][(nEvents' # nEvents /\ last'.ev = "leave" /\ ~Absent(data[last'.id].room)) =>
          LET c == last'.id
              R == data[c].room
          IN /\ \E i \in DOMAIN log' :
                   /\ log'[i].op = "emit" /\ log'[i].ev = "peer-left"
                   /\ log'[i].body.id = c
                   /\ log'[i].rcpt = rooms[R] \ {c}
             /\ \A i \in DOMAIN log' :
                   (log'[i].op = "emit" /\ log'[i].ev = "peer-left") =>
                       log'[i].rcpt = rooms[R] \ {c}
             /\ c \notin rooms'[R]
             /\ \A p \in roomMembersMap' : p[1] = R => c \notin p[2]
             /\ data'[c].room = Null
             /\ \A d \in Conns \ {c} :
                   /\ data'[d].room = data[d].room
                   /\ \A r \in AllRooms : (d \in rooms'[r]) <=> (d \in rooms[r])]_vars

\* a leave from a room in which another member stays
C13_Witness ==
    /\ last.ev = "leave"
    /\ \E i \in Emits("peer-left") : log[i].rcpt # {} /\ log[i].rcpt = rooms[log[i].room]

-----------------------------------------------------------------------------
(* C14 *)

\* C14: a leave or disconnect from a connection with no recorded room emits no
\* peer-left, roomMembers or roomDelta and changes no room's live member set
\* and no snapshot.
C14_NoRoomLeaveIsNoOp ==
    [][(nEvents' # nEvents /\ last'.ev \in {"leave", "disconnect"}
           /\ Absent(data[last'.id].room)) =>
          /\ \A i \in DOMAIN log' :
                log'[i].ev \notin {"peer-left", "roomMembers", "roomDelta"}
          /\ \A r \in ClientRooms : rooms'[r] = rooms[r]
          /\ roomMembersMap' = roomMembersMap]_vars

-----------------------------------------------------------------------------
(* C15 *)

\* C15: a chatMessage whose text is not a string, or whose room is empty or
\* missing, makes the handler emit nothing and change no state.
C15_MalformedChatDropped ==
    [][(nEvents' # nEvents /\ last'.ev = "chatMessage"
           /\ (last'.text.t # "string" \/ Absent(last'.room))) =>
          /\ log' = <<>>
          /\ UNCHANGED <<status, rooms, data, roomMembersMap>>]_vars

\* a chatMessage with a number as text, for a room that has other members
C15_Witness ==
    /\ last.ev = "chatMessage" /\ last.text.t # "string" /\ ~Absent(last.room)
    /\ rooms[last.room] \ {last.id} # {}

-----------------------------------------------------------------------------
(* C16 *)

\* C16: a chatMessage with a room R and a string text is delivered to exactly
\* the live members of R other than the sender, with the sender's id and
\* stored name, whether or not the sender is in R, and changes no state.
C16_ChatToRoomOthers ==
    [][(nEvents' # nEvents /\ last'.ev = "chatMessage"
           /\ last'.text.t = "string" /\ ~Absent(last'.room)) =>
          LET c == last'.id
              R == last'.room
          IN /\ Len(log') = 1
             /\ log'[1].op = "emit" /\ log'[1].ev = "chatMessage"
             /\ log'[1].rcpt = rooms[R] \ {c}
             /\ log'[1].body.id = c
             /\ log'[1].body.name = data[c].name
             /\ log'[1].body.text = last'.text.v
             /\ UNCHANGED <<status, rooms, data, roomMembersMap>>]_vars

\* a chatMessage into a room with members, from a connection outside it
C16_Witness ==
    /\ last.ev = "chatMessage" /\ last.room \in AllRooms
    /\ last.id \notin rooms[last.room]
    /\ Recipients("chatMessage") # {}

-----------------------------------------------------------------------------
(* C17 *)

\* C17: a signal with data and no target is delivered to the other live
\* members of the sender's recorded room and to nobody else; with no recorded
\* room, or without data, nothing is emitted; a signal never changes
\* membership, snapshot or identity state.
C17_UntargetedSignalToRoomOthers ==
    [][(nEvents' # nEvents /\ last'.ev = "signal") =>
          LET c == last'.id
              R == data[c].room
          IN /\ UNCHANGED <<status, rooms, data, roomMembersMap>>
             /\ (Absent(last'.to) /\ ~Absent(last'.data) /\ ~Absent(R)) =>
                   /\ Len(log') = 1
                   /\ log'[1].op = "emit" /\ log'[1].ev = "signal"
                   /\ log'[1].rcpt = rooms[R] \ {c}
                   /\ log'[1].body.id = c
                   /\ log'[1].body.data = last'.data
             /\ (Absent(last'.data) \/ (Absent(last'.to) /\ Absent(R))) =>
                   log' = <<>>]_vars

\* an untargeted signal that reaches another member of the sender's room
C17_Witness ==
    /\ last.ev = "signal" /\ Absent(last.to) /\ ~Absent(last.data)
    /\ Recipients("signal") # {}

-----------------------------------------------------------------------------
(* C18 *)

\* every metadata object stored for a connection or carried by an emit of the
\* last handler
MetasInUse ==
    {data[c].meta : c \in Conns}
    \cup {log[i].body.meta : i \in DOMAIN log}
    \cup UNION {{m.meta : m \in log[i].body.members \cup log[i].body.joined
                                   \cup log[i].body.left} : i \in DOMAIN log}

\* a whitelisted key with a value within its length cap
Whitelisted(p) == p[1] \in MetaKeys /\ Len(p[2]) <= MetaCap(p[1])

\* C18 as claimed: every stored or sent metadata object has only whitelisted
\* keys, each a length-capped string.
C18_OnlyWhitelistedMeta ==
    \A meta \in MetasInUse : \A p \in meta : Whitelisted(p)

\* C18 as amended: every stored or sent metadata object has only whitelisted
\* keys, each a length-capped string, and the _sanitizedAt time stamp that
\* the server itself sets; no other field a client sent is stored or sent.
C18_WhitelistedMetaAndStamp ==
    \A meta \in MetasInUse :
        \A p \in meta : Whitelisted(p) \/ p = <<"_sanitizedAt", Now>>

\* a peer is sent a member's metadata whose over-long deviceType was cut
C18_Witness ==
    \E i \in Emits("peer-joined") :
        /\ log[i].rcpt # {}
        /\ <<"deviceType", Rep("d", DeviceTypeCap)>> \in log[i].body.meta
        /\ log[i].body.meta = data[log[i].body.id].meta

-----------------------------------------------------------------------------
(* C19 *)

\* the emit at position i is a roomMembers for room r that reaches exactly
\* the live members of r and lists exactly them
FullRoster(i, r) ==
    /\ log[i].room = r
    /\ log[i].rcpt = rooms[r]
    /\ MemberIds(log[i].body.members) = rooms[r]
    /\ log[i].body.count = Cardinality(rooms[r])

\* C19: after a join that registers a membership, and after a leave or
\* disconnect of a joined connection, a roomMembers is sent to every live
\* member of the affected room (the new joiner included, the departed
\* connection not), listing exactly the live member set with its count.
C19_RosterToRoom ==
    /\ Registered =>
          \E i \in Emits("roomMembers") :
             /\ \A j \in Steps("adapter.join") : j < i
             /\ FullRoster(i, last.room)
             /\ last.id \in log[i].rcpt
    /\ \A p \in Emits("peer-left") :
          \E i \in Emits("roomMembers") :
             /\ p < i
             /\ FullRoster(i, log[p].room)
             /\ last.id \notin log[i].rcpt

\* a disconnect after which the remaining members are sent the roster
C19_Witness ==
    /\ last.ev = "disconnect"
    /\ \E i \in Emits("roomMembers") : log[i].rcpt # {}

-----------------------------------------------------------------------------
(* C21 *)

\* C21: for every connection m in the live member set of a room R, the peer
\* set m holds from its notices (existingPeers of its latest join, plus each
\* peer-joined, minus each peer-left received since) is the live member set
\* of R without m, after every handler.
C21_PeerViewIsLiveOthers ==
    \A m \in Conns, R \in ClientRooms :
        m \in rooms[R] => peerView[m] = rooms[R] \ {m}

-----------------------------------------------------------------------------
(* C22 *)

\* entry e of the handler of event evt is a broadcast addressed to a room
RoomCast(e, evt) ==
    /\ e.op = "emit"
    /\ \/ e.ev \in {"peer-joined", "peer-left", "roomMembers", "roomMeta", "roomDelta",
                     "chatMessage"}
       \/ e.ev = "signal" /\ Absent(evt.to)

\* the live member set of room R after the first n entries of lg, from live
RECURSIVE LiveAfter(_, _, _, _)
LiveAfter(live, lg, R, n) ==
    IF n = 0 THEN live
    ELSE LET s == LiveAfter(live, lg, R, n - 1)
             e == lg[n]
         IN IF e.room # R THEN s
            ELSE IF e.op = "adapter.join" THEN s \cup {e.body.id}
            ELSE IF e.op = "adapter.leave" THEN s \ {e.body.id}
            ELSE s

\* C22: every broadcast for a room R (peer-joined, peer-left, roomMembers,
\* roomMeta, roomDelta, chatMessage, untargeted signal) reaches only
\* connections that are in the live member set of R when it is emitted:
\* connected sockets that were in R before the handler or joined R earlier in
\* it, and have not left R earlier in it.  The connection a handler takes out
\* of R receives none of that handler's broadcasts for R, so a connection that
\* left R, switched away or disconnected gets nothing for R until it joins R.
C22_BroadcastOnlyToLiveMembers ==
    [][nEvents' # nEvents =>
          \A i \in DOMAIN log' :
             RoomCast(log'[i], last') =>
                LET R == log'[i].room IN
                /\ log'[i].rcpt \subseteq
                      LiveAfter(rooms[R] \cap Sockets(status'), log', R, i - 1)
                /\ log'[i].rcpt \subseteq rooms'[R]
                /\ log'[i].rcpt \subseteq Sockets(status')]_vars

\* a room switch whose roster for the old room reaches the member that stays
\* and not the one that switched away
C22_Witness ==
    /\ Switched
    /\ \E i \in Emits("roomMembers") :
          /\ log[i].room # last.room
          /\ log[i].rcpt # {}
          /\ last.id \notin log[i].rcpt

-----------------------------------------------------------------------------
(* C23 *)

\* C23: the name a peer-left notice for connection c carries, as received by
\* a member m, is the name m was last given for c (in peer-joined,
\* existingPeers or roomMembers) before that notice.
C23_PeerLeftNameAsTold ==
    [][nEvents' # nEvents =>
          \A i \in DOMAIN log' :
             (log'[i].op = "emit" /\ log'[i].ev = "peer-left") =>
                \A m \in log'[i].rcpt :
                   \A p \in ToldAfter(toldName[m], log', m, i - 1) :
                      p[1] = log'[i].body.id => p[2] = log'[i].body.name]_vars

=============================================================================
